---- MODULE Spec2Model ----
(***************************************************************************)
(* The reconciliation loop of src/main.rs: every cycle opens the local     *)
(* repository, fetches the remote head, reads the local head, compares     *)
(* the two and pulls when they differ, then sleeps.  The environment       *)
(* (file system, network, git, stdout, the system clock) is a              *)
(* nondeterministic choice of each operation's outcome.                    *)
(***************************************************************************)
EXTENDS Integers, Sequences, FiniteSets, TLC

\* ------------------------------------------------------------ bounds
\* Cycles observed before the model stops starting new ones.
MaxCycles == 8
\* Instants of real time the model distinguishes.
MaxTime == 2
\* Largest offset of the system clock from real time (the clock can be set).
MaxSkew == 1
\* config.local_repo.check_interval_seconds of the run.
CheckInterval == 5
\* Largest counter value a backoff-only run starts from (SpecBackoff).
MaxAttemptInput == 10

\* ------------------------------------------------------------ constants
\* attempt.min(6)
BackoffCap == 6
\* backoff_attempt is a u32, held as two 16-bit halves [hi, lo] (value
\* hi * 65536 + lo) so that every value up to u32::MAX can be written.
U32Half == 65536

Commits == {"abc123", "def456"}
\* Option::None of an identifier
NoCommit == "none"
\* HTTP statuses of a response; 0 stands for "no response received"
Statuses == {200, 404}
\* A JSON value that is not a string (a number, null, an object, ...)
NonString == "nonstring"
\* The values a body carries where the identifier is looked for.
BodyValues == Commits \cup {NonString}
\* Most values a modelled body carries.
MaxItems == 2
\* Response bodies, as far as deserialising a GitHubCommit (main.rs:36-39)
\* tells them apart.  shape: "invalid" (no JSON text), "scalar" (a JSON
\* string, number, ...), "object" or "array".  items: for an object the
\* values of its keys named `sha`, in order of appearance (its other keys
\* are ignored); for an array its elements.
Bodies ==
    [shape : {"invalid", "scalar"}, items : {<<>>}]
    \cup [shape : {"object", "array"},
          items : UNION {[1..n -> BodyValues] : n \in 0..MaxItems}]
\* No response was received.
NoBody == [shape |-> "none", items |-> <<>>]

VARIABLES
    pc,                   \* position of main in the loop
    backoff_attempt,      \* main.rs:159
    last_change_time,     \* main.rs:157, a SystemTime reading
    latest_remote_commit, \* main.rs:172 (NoCommit before the fetch of a cycle)
    local_commit,         \* main.rs:182
    sleep_dur,            \* seconds passed to the sleep in progress, 0 if none
    errors,               \* error! entries written to the log in this cycle
    http_status,          \* status of the response received in this cycle
                          \* (0 while none has been received)
    http_body,            \* body the fetch has just deserialised the
                          \* identifier from; gone once main goes on
    now,                  \* real time (monotonic instants)
    skew,                 \* system clock = now + skew
    \* history of the run, read by the properties only
    cycle,                \* number of cycles started
    pulls_in_cycle,       \* invocations of pull_latest_changes in this cycle
    pull_count,           \* invocations of pull_latest_changes so far
    div_count,            \* cycles so far that obtained two different identifiers
    run_kind,             \* "equal"/"failed"/"openfail": every cycle so far was
                          \* one; else "mixed"
    cycle_start,          \* instant at which the current cycle started
    attempt_before,       \* backoff_attempt when the current cycle started
    stamp_at,             \* instant at which last_change_time was read
    last_pull,            \* outcome of the latest pull ("none" before the first)
    trace                 \* steps the current cycle has performed, in order

vars == <<pc, backoff_attempt, last_change_time, latest_remote_commit,
          local_commit, sleep_dur, errors, http_status, http_body, now, skew,
          cycle, pulls_in_cycle, pull_count, div_count, run_kind,
          cycle_start, attempt_before, stamp_at, last_pull, trace>>

prog == <<pc, backoff_attempt, last_change_time, latest_remote_commit,
          local_commit, sleep_dur, errors, http_status, http_body>>
hist == <<cycle, pulls_in_cycle, pull_count, div_count, run_kind,
          cycle_start, attempt_before, stamp_at, last_pull, trace>>
clock == <<now, skew>>

Min(a, b) == IF a < b THEN a ELSE b

\* SystemTime::now()
SystemTimeNow == now + skew

\* ------------------------------------------------------------ u32
\* The u32 of a small number n.
u32(n) == [hi |-> n \div U32Half, lo |-> n % U32Half]

\* u32::MAX
U32Max == [hi |-> U32Half - 1, lo |-> U32Half - 1]

\* a.min(n) for a u32 a and a small number n, as a number
u32_min(a, n) == IF a.hi > 0 \/ a.lo > n THEN n ELSE a.lo

\* a + 1 for a u32 a below u32::MAX
u32_inc(a) ==
    IF a.lo < U32Half - 1 THEN [hi |-> a.hi, lo |-> a.lo + 1]
    ELSE [hi |-> a.hi + 1, lo |-> 0]

\* ------------------------------------------------------------ pure functions
\* exponential_backoff without the cap on the exponent
exponential_backoff_uncapped(attempt) ==
    2 ^ (IF attempt.hi > 0 THEN 30 ELSE IF attempt.lo > 30 THEN 30 ELSE attempt.lo)

\* fn exponential_backoff(attempt: u32) -> Duration, in seconds
exponential_backoff(attempt) == 2 ^ u32_min(attempt, BackoffCap)

\* response.json::<GitHubCommit>() (main.rs:68), whatever the status of the
\* response.  The derived Deserialize of the one-field struct accepts an
\* object whose key `sha` occurs exactly once with a string value (a missing
\* or repeated key and a value of another type are errors) and also an array
\* of exactly one string, which it takes as the fields in order.
ParseCommit(body) ==
    IF /\ body.shape \in {"object", "array"}
       /\ Len(body.items) = 1
       /\ body.items[1] \in Commits
    THEN body.items[1]
    ELSE NoCommit

\* SystemTime::elapsed() is Err when the system clock reads earlier than self.
ElapsedIsErr(t) == SystemTimeNow < t

\* ------------------------------------------------------------ initial state
Init ==
    /\ pc = "open"
    /\ backoff_attempt = u32(0)
    /\ now = 0
    /\ skew \in 0..MaxSkew
    /\ last_change_time = now + skew
    /\ latest_remote_commit = NoCommit
    /\ local_commit = NoCommit
    /\ sleep_dur = 0
    /\ errors = {}
    /\ http_status = 0
    /\ http_body = NoBody
    /\ cycle = 0
    /\ pulls_in_cycle = 0
    /\ pull_count = 0
    /\ div_count = 0
    /\ run_kind = "none"
    /\ cycle_start = 0
    /\ attempt_before = backoff_attempt
    /\ stamp_at = 0
    /\ last_pull = "none"
    /\ trace = <<>>

\* A loop-head state after an arbitrary number of earlier failures.
InitBackoff ==
    /\ pc = "open"
    /\ backoff_attempt \in {u32(n) : n \in 0..MaxAttemptInput}
    /\ now = 0
    /\ skew \in 0..MaxSkew
    /\ last_change_time = now + skew
    /\ latest_remote_commit = NoCommit
    /\ local_commit = NoCommit
    /\ sleep_dur = 0
    /\ errors = {}
    /\ http_status = 0
    /\ http_body = NoBody
    /\ cycle = 0
    /\ pulls_in_cycle = 0
    /\ pull_count = 0
    /\ div_count = 0
    /\ run_kind = "mixed"
    /\ cycle_start = 0
    /\ attempt_before = backoff_attempt
    /\ stamp_at = 0
    /\ last_pull = "none"
    /\ trace = <<>>

\* A loop-head state after 2^32 - 2 or 2^32 - 1 failed fetches or reads with
\* no divergent cycle in between: the counter is at u32::MAX - 1 or u32::MAX.
InitOverflow ==
    /\ pc = "open"
    /\ backoff_attempt \in {[hi |-> U32Half - 1, lo |-> U32Half - 2], U32Max}
    /\ now = 0
    /\ skew \in 0..MaxSkew
    /\ last_change_time = now + skew
    /\ latest_remote_commit = NoCommit
    /\ local_commit = NoCommit
    /\ sleep_dur = 0
    /\ errors = {}
    /\ http_status = 0
    /\ http_body = NoBody
    /\ cycle = 0
    /\ pulls_in_cycle = 0
    /\ pull_count = 0
    /\ div_count = 0
    /\ run_kind = "mixed"
    /\ cycle_start = 0
    /\ attempt_before = backoff_attempt
    /\ stamp_at = 0
    /\ last_pull = "none"
    /\ trace = <<>>

\* run_kind after a cycle of kind k ("equal", "failed", "openfail", "mixed")
Kind(k) == IF run_kind \in {"none", k} THEN k ELSE "mixed"

\* The top of the loop body: a new cycle starts, its locals are fresh.
BeginCycle ==
    /\ pc = "open"
    /\ cycle < MaxCycles
    /\ cycle' = cycle + 1
    /\ cycle_start' = now
    /\ attempt_before' = backoff_attempt
    /\ pulls_in_cycle' = 0
    /\ latest_remote_commit' = NoCommit
    /\ local_commit' = NoCommit
    /\ http_status' = 0
    /\ http_body' = NoBody
    /\ trace' = <<"open">>

\* The bodies response.json::<GitHubCommit>() fails on.
UnparsableBodies == {body \in Bodies : ParseCommit(body) = NoCommit}

\* ------------------------------------------------------------ the loop
\* Repository::open succeeds (main.rs:163-164).
OpenRepoOk ==
    /\ BeginCycle
    /\ pc' = "fetch"
    /\ errors' = {}
    /\ UNCHANGED <<backoff_attempt, last_change_time, sleep_dur, clock,
                   pull_count, div_count, run_kind, stamp_at, last_pull>>

\* OpenRepoFail treated like the other failures: backoff sleep.
OpenRepoFail_Backoff ==
    /\ BeginCycle
    /\ errors' = {"open"}
    /\ pc' = "sleep_fetch"
    /\ sleep_dur' = exponential_backoff(backoff_attempt)
    /\ run_kind' = "mixed"
    /\ UNCHANGED <<backoff_attempt, last_change_time, clock,
                   pull_count, div_count, stamp_at, last_pull>>

\* OpenRepoFail that lets the error end main (`?` in place of the match).
OpenRepoFail_Propagates ==
    /\ BeginCycle
    /\ errors' = {"open"}
    /\ pc' = "exited"
    /\ run_kind' = Kind("openfail")
    /\ UNCHANGED <<backoff_attempt, last_change_time, sleep_dur, clock,
                   pull_count, div_count, stamp_at, last_pull>>

\* Repository::open fails (main.rs:165-169): log, sleep the poll interval.
OpenRepoFail ==
    /\ BeginCycle
    /\ errors' = {"open"}
    /\ pc' = "sleep_open"
    /\ sleep_dur' = CheckInterval
    /\ run_kind' = Kind("openfail")
    /\ UNCHANGED <<backoff_attempt, last_change_time, clock,
                   pull_count, div_count, stamp_at, last_pull>>

\* get_latest_commit_sha builds the request and awaits send() (main.rs:55-67).
\* No timeout is set on the client: the await ends only when an answer comes.
SendRequest ==
    /\ pc = "fetch"
    /\ pc' = "await"
    /\ trace' = Append(trace, "fetch")
    /\ UNCHANGED <<backoff_attempt, last_change_time, latest_remote_commit,
                   local_commit, sleep_dur, errors, http_status, http_body, clock,
                   cycle, pulls_in_cycle, pull_count, div_count, run_kind,
                   cycle_start, attempt_before, stamp_at, last_pull>>

\* RemoteFailed without the `continue`: the cycle goes on to the local read.
RemoteFailed_FallsThrough(tag) ==
    /\ errors' = errors \cup {tag, "remote"}
    /\ pc' = "read"
    /\ sleep_dur' = sleep_dur
    /\ run_kind' = Kind("failed")
    /\ UNCHANGED <<backoff_attempt, last_change_time, latest_remote_commit,
                   local_commit, clock, cycle, pulls_in_cycle, pull_count,
                   div_count, cycle_start, attempt_before, stamp_at,
                   last_pull, trace>>

\* main.rs:174-176: the fetch returned None.
RemoteFailed(tag) ==
    /\ errors' = errors \cup {tag, "remote"}
    /\ pc' = "sleep_fetch"
    /\ sleep_dur' = exponential_backoff(backoff_attempt)
    /\ run_kind' = Kind("failed")
    /\ UNCHANGED <<backoff_attempt, last_change_time, latest_remote_commit,
                   local_commit, clock, cycle, pulls_in_cycle, pull_count,
                   div_count, cycle_start, attempt_before, stamp_at,
                   last_pull, trace>>

\* send() returns Err (main.rs:78-81), then main.rs:174-178.
SendFails ==
    /\ pc = "await"
    /\ http_status' = 0
    /\ http_body' = NoBody
    /\ RemoteFailed("send")

\* send() returns Ok(response) (main.rs:67-68): the status line and the
\* headers have arrived, response.json() starts to await the body.  Nothing
\* bounds that wait either.
ResponseReceived ==
    /\ pc = "await"
    /\ \E st \in Statuses : http_status' = st
    /\ pc' = "await_body"
    /\ UNCHANGED <<backoff_attempt, last_change_time, latest_remote_commit,
                   local_commit, sleep_dur, errors, http_body, clock, hist>>

\* The await of the body ends with a body that does not parse
\* (main.rs:73-76), then main.rs:174-176: the body is consumed by the failed
\* deserialisation and nothing is kept.
ResponseUnparsable ==
    /\ pc = "await_body"
    /\ UnparsableBodies # {}
    /\ http_body' = NoBody
    /\ http_status' = http_status
    /\ RemoteFailed("parse")

\* The await of the body ends with a body that parses (main.rs:68-72,
\* 172-173).
ResponseParsed ==
    /\ pc = "await_body"
    /\ \E body \in Bodies :
          /\ ParseCommit(body) # NoCommit
          /\ http_body' = body
          /\ latest_remote_commit' = ParseCommit(body)
    /\ pc' = "read"
    /\ UNCHANGED <<backoff_attempt, last_change_time, local_commit, sleep_dur,
                   errors, http_status, clock, hist>>

\* get_local_commit_sha returns Some (main.rs:86-92, 182-183).  Of the
\* response only the identifier is left.
ReadLocalOk ==
    /\ pc = "read"
    /\ http_body' = NoBody
    /\ \E c \in Commits :
          /\ local_commit' = c
          /\ div_count' = IF c # latest_remote_commit THEN div_count + 1
                          ELSE div_count
    /\ pc' = "compare"
    /\ UNCHANGED <<backoff_attempt, last_change_time, latest_remote_commit,
                   sleep_dur, errors, http_status, clock, cycle,
                   pulls_in_cycle, pull_count, run_kind, cycle_start,
                   attempt_before, stamp_at, last_pull>>
    /\ trace' = Append(trace, "read")

\* get_local_commit_sha returns None (main.rs:87-88, 184-186).
ReadLocalFail ==
    /\ pc = "read"
    /\ http_body' = NoBody
    /\ errors' = errors \cup {"local"}
    /\ pc' = "sleep_read"
    /\ sleep_dur' = exponential_backoff(backoff_attempt)
    /\ run_kind' = Kind("failed")
    /\ UNCHANGED <<backoff_attempt, last_change_time, latest_remote_commit,
                   local_commit, http_status, clock, cycle, pulls_in_cycle,
                   pull_count, div_count, cycle_start, attempt_before, stamp_at,
                   last_pull>>
    /\ trace' = Append(trace, "read")

\* DetectChanges with the comparison inverted (== for !=).
DetectChanges_Inverted ==
    /\ pc = "compare"
    /\ latest_remote_commit = local_commit
    /\ pc' = "pull"
    /\ pulls_in_cycle' = pulls_in_cycle + 1
    /\ pull_count' = pull_count + 1
    /\ run_kind' = "mixed"
    /\ UNCHANGED <<backoff_attempt, last_change_time, latest_remote_commit,
                   local_commit, sleep_dur, errors, http_status, http_body, clock,
                   cycle, div_count, cycle_start, attempt_before, stamp_at,
                   last_pull>>
    /\ trace' = trace \o <<"compare", "pull">>

\* DetectChanges that gives up pulling once a pull has failed.
DetectChanges_GivesUp ==
    /\ pc = "compare"
    /\ latest_remote_commit # local_commit
    /\ IF last_pull \in {"none", "ok"}
         THEN /\ pc' = "pull"
              /\ pulls_in_cycle' = pulls_in_cycle + 1
              /\ pull_count' = pull_count + 1
              /\ sleep_dur' = sleep_dur
         ELSE /\ pc' = "sleep_interval"
              /\ sleep_dur' = CheckInterval
              /\ UNCHANGED <<pulls_in_cycle, pull_count>>
    /\ run_kind' = "mixed"
    /\ UNCHANGED <<backoff_attempt, last_change_time, latest_remote_commit,
                   local_commit, errors, http_status, http_body, clock,
                   cycle, div_count, cycle_start, attempt_before, stamp_at,
                   last_pull>>
    /\ trace' = IF last_pull \in {"none", "ok"}
                THEN trace \o <<"compare", "pull">>
                ELSE Append(trace, "compare")

\* main.rs:193-195: the identifiers differ, pull_latest_changes is called
\* and runs `git pull` (main.rs:96-101).
DetectChanges ==
    /\ pc = "compare"
    /\ latest_remote_commit # local_commit
    /\ pc' = "pull"
    /\ pulls_in_cycle' = pulls_in_cycle + 1
    /\ pull_count' = pull_count + 1
    /\ run_kind' = "mixed"
    /\ UNCHANGED <<backoff_attempt, last_change_time, latest_remote_commit,
                   local_commit, sleep_dur, errors, http_status, http_body, clock,
                   cycle, div_count, cycle_start, attempt_before, stamp_at,
                   last_pull>>
    /\ trace' = trace \o <<"compare", "pull">>

\* PullLatestChanges that resets the loop state only when the pull succeeded.
PullLatestChanges_OnlyOnSuccess ==
    /\ pc = "pull"
    /\ \E outcome \in {"ok", "status", "exec"} :
          /\ last_pull' = outcome
          /\ errors' = IF outcome = "ok" THEN errors
                       ELSE errors \cup {IF outcome = "status" THEN "pull_status"
                                          ELSE "pull_exec"}
          /\ IF outcome = "ok"
               THEN /\ last_change_time' = SystemTimeNow
                    /\ stamp_at' = now
                    /\ backoff_attempt' = u32(0)
               ELSE UNCHANGED <<last_change_time, stamp_at, backoff_attempt>>
    /\ pc' = "sleep_interval"
    /\ sleep_dur' = CheckInterval
    /\ UNCHANGED <<latest_remote_commit, local_commit, http_status, http_body, clock,
                   cycle, pulls_in_cycle, pull_count, div_count, run_kind,
                   cycle_start, attempt_before, trace>>

\* The pull ends (main.rs:103-107), then main.rs:196-197 and the sleep of
\* main.rs:209.  outcome: "ok", "status" (git exited non-zero) or "exec"
\* (git could not be run).
PullLatestChanges ==
    /\ pc = "pull"
    /\ \E outcome \in {"ok", "status", "exec"} :
          /\ last_pull' = outcome
          /\ errors' = IF outcome = "ok" THEN errors
                       ELSE errors \cup {IF outcome = "status" THEN "pull_status"
                                          ELSE "pull_exec"}
    /\ last_change_time' = SystemTimeNow
    /\ stamp_at' = now
    /\ backoff_attempt' = u32(0)
    /\ pc' = "sleep_interval"
    /\ sleep_dur' = CheckInterval
    /\ UNCHANGED <<latest_remote_commit, local_commit, http_status, http_body, clock,
                   cycle, pulls_in_cycle, pull_count, div_count, run_kind,
                   cycle_start, attempt_before, trace>>

\* main.rs:199: last_change_time.elapsed()? returns Err from main.
NoChangeElapsedErr ==
    /\ pc = "compare"
    /\ latest_remote_commit = local_commit
    /\ ElapsedIsErr(last_change_time)
    /\ pc' = "exited"
    /\ run_kind' = Kind("equal")
    /\ UNCHANGED <<backoff_attempt, last_change_time, latest_remote_commit,
                   local_commit, sleep_dur, errors, http_status, http_body, clock,
                   cycle, pulls_in_cycle, pull_count, div_count,
                   cycle_start, attempt_before, stamp_at, last_pull>>
    /\ trace' = Append(trace, "compare")

\* main.rs:199-205: the identifiers are equal, elapsed() is Ok, the status
\* line is put into stdout's buffer by print! and io::stdout().flush()
\* starts to write it out.  The write blocks main for as long as stdout
\* takes no more data.
NoChangeElapsedOk ==
    /\ pc = "compare"
    /\ latest_remote_commit = local_commit
    /\ ~ElapsedIsErr(last_change_time)
    /\ pc' = "flush"
    /\ run_kind' = Kind("equal")
    /\ UNCHANGED <<backoff_attempt, last_change_time, latest_remote_commit,
                   local_commit, sleep_dur, errors, http_status, http_body, clock,
                   cycle, pulls_in_cycle, pull_count, div_count,
                   cycle_start, attempt_before, stamp_at, last_pull>>
    /\ trace' = Append(trace, "compare")

\* main.rs:205: io::stdout().flush()? is Err and main returns it.
NoChangeFlushErr ==
    /\ pc = "flush"
    /\ pc' = "exited"
    /\ UNCHANGED <<backoff_attempt, last_change_time, latest_remote_commit,
                   local_commit, sleep_dur, errors, http_status, http_body, clock,
                   hist>>

\* NoChange that also refreshes last_change_time.
NoChange_UpdatesTime ==
    /\ pc = "flush"
    /\ pc' = "sleep_interval"
    /\ sleep_dur' = CheckInterval
    /\ last_change_time' = SystemTimeNow
    /\ UNCHANGED <<backoff_attempt, latest_remote_commit,
                   local_commit, errors, http_status, http_body, clock, hist>>

\* NoChange that sleeps the backoff delay instead of the poll interval.
NoChange_SleepsBackoff ==
    /\ pc = "flush"
    /\ pc' = "sleep_interval"
    /\ sleep_dur' = exponential_backoff(backoff_attempt)
    /\ UNCHANGED <<backoff_attempt, last_change_time, latest_remote_commit,
                   local_commit, errors, http_status, http_body, clock, hist>>

\* main.rs:205-209: flush() returns Ok, the sleep of main.rs:209 starts.
NoChange ==
    /\ pc = "flush"
    /\ pc' = "sleep_interval"
    /\ sleep_dur' = CheckInterval
    /\ UNCHANGED <<backoff_attempt, last_change_time, latest_remote_commit,
                   local_commit, errors, http_status, http_body, clock, hist>>

\* WakeInterval that counts every sleep as an attempt.
WakeInterval_Increments ==
    /\ pc \in {"sleep_open", "sleep_interval"}
    /\ pc' = "open"
    /\ sleep_dur' = 0
    /\ backoff_attempt' = u32_inc(backoff_attempt)
    /\ UNCHANGED <<last_change_time, latest_remote_commit,
                   local_commit, errors, http_status, http_body, clock, hist>>

\* The sleep of main.rs:167 or main.rs:209 ends; the loop starts over.
WakeInterval ==
    /\ pc \in {"sleep_open", "sleep_interval"}
    /\ pc' = "open"
    /\ sleep_dur' = 0
    /\ UNCHANGED <<backoff_attempt, last_change_time, latest_remote_commit,
                   local_commit, errors, http_status, http_body, clock, hist>>

\* WakeBackoff without the increment.
WakeBackoff_NoIncrement ==
    /\ pc \in {"sleep_fetch", "sleep_read"}
    /\ sleep_dur' = 0
    /\ pc' = "open"
    /\ UNCHANGED <<backoff_attempt, last_change_time, latest_remote_commit,
                   local_commit, errors, http_status, http_body, clock, hist>>

\* The sleep of main.rs:176 or main.rs:186 ends, then `backoff_attempt += 1`
\* and `continue` (main.rs:177-178, 187-188).  At u32::MAX the addition
\* panics when overflow checks are compiled in and wraps to 0 otherwise.
WakeBackoff ==
    /\ pc \in {"sleep_fetch", "sleep_read"}
    /\ sleep_dur' = 0
    /\ IF backoff_attempt # U32Max
         THEN /\ backoff_attempt' = u32_inc(backoff_attempt)
              /\ pc' = "open"
         ELSE \/ /\ backoff_attempt' = u32(0)
                 /\ pc' = "open"
              \/ /\ backoff_attempt' = backoff_attempt
                 /\ pc' = "exited"
    /\ UNCHANGED <<last_change_time, latest_remote_commit, local_commit,
                   errors, http_status, http_body, clock, hist>>

\* ------------------------------------------------------------ environment
\* main waits: for the remote (send, body), for `git pull`, for stdout or
\* for a timer.
Blocked == pc \in {"await", "await_body", "pull", "flush", "sleep_open",
                   "sleep_fetch", "sleep_read", "sleep_interval"}

\* Real time passes while main is blocked.
Tick ==
    /\ Blocked
    /\ now < MaxTime
    /\ now' = now + 1
    /\ UNCHANGED <<skew, prog, hist>>

\* The system clock is set (forwards or backwards) while main is blocked.
ClockAdjust ==
    /\ Blocked
    /\ \E s \in 0..MaxSkew : s # skew /\ skew' = s
    /\ UNCHANGED <<now, prog, hist>>

Next ==
    \/ OpenRepoOk
    \/ OpenRepoFail
    \/ SendRequest
    \/ SendFails
    \/ ResponseReceived
    \/ ResponseUnparsable
    \/ ResponseParsed
    \/ ReadLocalOk
    \/ ReadLocalFail
    \/ DetectChanges
    \/ PullLatestChanges
    \/ NoChangeElapsedErr
    \/ NoChangeElapsedOk
    \/ NoChangeFlushErr
    \/ NoChange
    \/ WakeInterval
    \/ WakeBackoff
    \/ Tick
    \/ ClockAdjust

Spec == Init /\ [][Next]_vars

\* The same loop entered with any counter value 0..MaxAttemptInput.
SpecBackoff == InitBackoff /\ [][Next]_vars

\* The same loop entered with the counter about to overflow.
SpecOverflow == InitOverflow /\ [][Next]_vars

\* The steps main takes by itself: calls into the local repository return,
\* the comparison is made, timers fire.  Three waits are not among them,
\* because the code bounds none of them and another party ends them: the
\* answer of the remote, its status line and its body (Client::new() sets
\* no timeout, main.rs:59-68), the exit of `git pull` (Command::status(),
\* main.rs:97-101) and the write of the status line to stdout (flush,
\* main.rs:205).
LocalStep ==
    \/ OpenRepoOk \/ OpenRepoFail
    \/ SendRequest
    \/ ReadLocalOk \/ ReadLocalFail
    \/ DetectChanges
    \/ NoChangeElapsedErr \/ NoChangeElapsedOk
    \/ WakeInterval \/ WakeBackoff

\* The loop under the scheduling the runtime gives it: main keeps running
\* whenever it can take a step of its own; a wait on the remote, on git or
\* on stdout may last forever.
SpecFair == Init /\ [][Next]_vars /\ WF_vars(LocalStep)

\* ------------------------------------------------------------ properties
\* The delay the specification gives for a counter value: min(2^n, 64).
BackoffPolicy(a) == IF a.hi > 0 \/ a.lo >= 6 THEN 64 ELSE 2 ^ a.lo

\* b is a + 1 as numbers (no wrap).
IsSuccessor(a, b) ==
    \/ a.lo < U32Half - 1 /\ b.lo = a.lo + 1 /\ b.hi = a.hi
    \/ a.lo = U32Half - 1 /\ b.lo = 0 /\ b.hi = a.hi + 1

Sleeping == pc \in {"sleep_open", "sleep_fetch", "sleep_read", "sleep_interval"}
BackoffSleeping == pc \in {"sleep_fetch", "sleep_read"}
CycleEnded == Sleeping \/ pc = "exited"

\* Both identifiers of the current cycle were obtained and differ.
Divergent ==
    /\ latest_remote_commit # NoCommit
    /\ local_commit # NoCommit
    /\ latest_remote_commit # local_commit

PullFailed == pulls_in_cycle = 1 /\ last_pull \in {"status", "exec"}

\* C1: at the end of every cycle in which the open, the remote fetch and the
\* local read all succeeded (the cycle reached the sleep of main.rs:209),
\* backoff_attempt is 0, whether the identifiers differed or not.
C1_ResetAfterAnySuccessfulCycle ==
    pc = "sleep_interval" => backoff_attempt = u32(0)

\* C2: pull_latest_changes is invoked exactly once in each cycle that
\* obtained both identifiers and found them different, and in no other
\* cycle; the invocations so far are as many as the divergent cycles.
C2_PullExactlyInDivergentCycles ==
    /\ pulls_in_cycle \in {0, 1}
    /\ ~Divergent => pulls_in_cycle = 0
    /\ CycleEnded => pulls_in_cycle = (IF Divergent THEN 1 ELSE 0)
    /\ pc \in {"pull"} => pulls_in_cycle = 1
    /\ pull_count = div_count - (IF pc = "compare" /\ Divergent THEN 1 ELSE 0)

\* C2 witness: a fourth cycle has pulled, it is the second pull of the run.
C2_Witness ==
    /\ pc = "sleep_interval"
    /\ cycle = 4
    /\ pulls_in_cycle = 1
    /\ pull_count = 2

\* C3: the loop has no terminal state: main never returns.
C3_LoopNeverEnds == pc # "exited"

\* C4: the backoff delay is min(2^n, 64) seconds for the counter value n it
\* is computed from, and no smaller counter value gives a longer delay.
C4_BackoffIsCappedPowerOfTwo ==
    (BackoffSleeping /\ backoff_attempt.hi = 0) =>
        /\ sleep_dur = (IF 2 ^ backoff_attempt.lo < 64
                        THEN 2 ^ backoff_attempt.lo ELSE 64)
        /\ \A m \in 0..backoff_attempt.lo :
              /\ exponential_backoff(u32(m)) <= sleep_dur
              /\ m > 0 => exponential_backoff(u32(m - 1))
                             <= exponential_backoff(u32(m))

\* C4 witness: a backoff sleep computed from the counter value 10.
C4_Witness ==
    /\ BackoffSleeping
    /\ backoff_attempt = u32(10)
    /\ sleep_dur = 64

\* C5: a cycle that obtained two different identifiers calls the pull and,
\* whatever the pull's outcome and the counter's value, then sets
\* last_change_time to the system clock's reading taken at that moment of
\* the cycle (not before the cycle's start) and backoff_attempt to 0.
C5_DivergentCycleStampsAndResets ==
    [][ /\ (pc = "compare" /\ Divergent /\ pc' # pc) => pc' = "pull"
        /\ (pc = "pull" /\ pc' # pc) =>
              /\ last_change_time' = SystemTimeNow'
              /\ stamp_at' = now'
              /\ stamp_at' >= cycle_start
              /\ backoff_attempt' = u32(0)
              /\ pc' = "sleep_interval" ]_vars

\* C5 witness: a divergent cycle entered with the counter at 2 has ended
\* after a pull that could not be run.
C5_Witness ==
    /\ pc = "sleep_interval"
    /\ Divergent
    /\ attempt_before = u32(2)
    /\ last_pull = "exec"
    /\ stamp_at > 0
    /\ backoff_attempt = u32(0)

\* C6: from the initial state, while every cycle so far ended in the
\* no-change branch, no pull has been invoked and backoff_attempt is 0.
C6_EqualRunNeverPullsNorCounts ==
    run_kind \in {"none", "equal"} =>
        /\ pull_count = 0
        /\ pulls_in_cycle = 0
        /\ backoff_attempt = u32(0)

\* C6 witness: the third consecutive no-change cycle is being slept off.
C6_Witness ==
    /\ run_kind = "equal"
    /\ cycle = 3
    /\ pc = "sleep_interval"

\* C7: a failed fetch or read sleeps BackoffPolicy of the counter's value,
\* the counter still unchanged; when the sleep ends the counter grows by
\* exactly 1 and the next cycle starts.  From the initial state the k-th of
\* k consecutive failing cycles sleeps min(2^(k-1), 64) seconds.
C7_FailureSleepsThenIncrements ==
    /\ [](BackoffSleeping =>
            /\ sleep_dur = BackoffPolicy(backoff_attempt)
            /\ backoff_attempt = attempt_before)
    /\ [](run_kind = "failed" /\ BackoffSleeping =>
            sleep_dur = (IF cycle - 1 >= 6 THEN 64 ELSE 2 ^ (cycle - 1)))
    /\ [][ /\ (pc \in {"await", "await_body", "read"}
               /\ pc' \in {"sleep_fetch", "sleep_read"})
              => backoff_attempt' = backoff_attempt
           /\ (BackoffSleeping /\ pc' # pc) =>
                 /\ IsSuccessor(backoff_attempt, backoff_attempt')
                 /\ pc' = "open" ]_vars

\* C7 witness: the eighth of eight consecutive failing cycles sleeps 64 s.
C7_Witness ==
    /\ run_kind = "failed"
    /\ cycle = 8
    /\ BackoffSleeping
    /\ sleep_dur = 64

\* C8 as stated: every cycle that logged a failure sleeps
\* BackoffPolicy(attempt) and goes on to increment the counter.
C8_EveryFailureBacksOff ==
    (Sleeping /\ errors # {}) =>
        /\ sleep_dur = BackoffPolicy(attempt_before)
        /\ BackoffSleeping

\* C8 amended: every failure of the four kinds is logged and the loop goes
\* on to the next cycle after a sleep; a failed fetch or read sleeps
\* BackoffPolicy(attempt) and then increments the counter, a failed open
\* sleeps the poll interval with the counter unchanged, a failed pull
\* sleeps the poll interval with the counter reset to 0.
C8_FailuresCaughtPerKind ==
    /\ [](pc = "sleep_open" =>
            /\ "open" \in errors
            /\ sleep_dur = CheckInterval
            /\ backoff_attempt = attempt_before)
    /\ [](pc = "sleep_fetch" =>
            /\ "remote" \in errors
            /\ sleep_dur = BackoffPolicy(attempt_before)
            /\ backoff_attempt = attempt_before)
    /\ [](pc = "sleep_read" =>
            /\ "local" \in errors
            /\ sleep_dur = BackoffPolicy(attempt_before)
            /\ backoff_attempt = attempt_before)
    /\ [](pc = "sleep_interval" /\ PullFailed =>
            /\ errors \cap {"pull_status", "pull_exec"} # {}
            /\ sleep_dur = CheckInterval
            /\ backoff_attempt = u32(0))
    /\ [][ /\ (pc \in {"open", "await", "await_body", "read", "pull"}
               /\ pc' # pc)
              => pc' # "exited"
           /\ (BackoffSleeping /\ pc' # pc) =>
                 /\ IsSuccessor(backoff_attempt, backoff_attempt')
                 /\ pc' = "open"
           /\ (pc \in {"sleep_open", "sleep_interval"} /\ pc' # pc) =>
                 /\ backoff_attempt' = backoff_attempt
                 /\ pc' = "open" ]_vars

\* C8 witness: a failed open is being slept off with the counter at 2.
C8_Witness ==
    /\ pc = "sleep_open"
    /\ "open" \in errors
    /\ attempt_before = u32(2)
    /\ sleep_dur = CheckInterval

\* C9: a cycle that reached the comparison never sleeps a backoff delay: its
\* sleep is the one of main.rs:209 and lasts the configured poll interval,
\* whatever backoff_attempt is; a backoff sleep belongs to a cycle whose
\* fetch or read failed.
C9_ComparedCyclesSleepPollInterval ==
    /\ pc = "sleep_interval" => sleep_dur = CheckInterval
    /\ (Sleeping /\ local_commit # NoCommit) =>
          pc = "sleep_interval" /\ sleep_dur = CheckInterval
    /\ BackoffSleeping =>
          /\ local_commit = NoCommit
          /\ errors \cap {"remote", "local"} # {}

\* C9 witness: a no-change cycle sleeps the poll interval with the counter
\* at 3 (the backoff delay would be 8 s).
C9_Witness ==
    /\ pc = "sleep_interval"
    /\ pulls_in_cycle = 0
    /\ latest_remote_commit = local_commit
    /\ backoff_attempt = u32(3)
    /\ sleep_dur = CheckInterval

\* C10: a failed pull is logged, does not end the loop and is not repeated
\* in its cycle; a later cycle that obtains two different identifiers pulls
\* again, whatever the outcome of the pull before.
C10_FailedPullRetriedNextCycle ==
    /\ [](pulls_in_cycle <= 1)
    /\ [](PullFailed /\ pc = "sleep_interval" =>
            errors \cap {"pull_status", "pull_exec"} # {})
    /\ [](CycleEnded /\ Divergent => pulls_in_cycle = 1)
    /\ [][ /\ (pc = "pull" /\ pc' # pc) => pc' = "sleep_interval"
           /\ (pc = "sleep_interval" /\ pc' # pc) => pc' = "open"
           /\ (pc = "compare" /\ Divergent /\ pc' # pc) =>
                 pc' = "pull" /\ pulls_in_cycle' = 1 ]_vars

\* C10 witness: the pull is running again in the cycle after a pull that
\* exited non-zero.
C10_Witness ==
    /\ pc = "pull"
    /\ last_pull = "status"
    /\ pull_count = 2
    /\ cycle = 2

\* C11: a failed open logs an error, performs no fetch and no pull, sleeps
\* the configured poll interval, leaves backoff_attempt and last_change_time
\* as they were and is followed by the next cycle; main does not end.
C11_OpenFailureSleepsPollInterval ==
    /\ [](pc = "sleep_open" =>
            /\ errors = {"open"}
            /\ trace = <<"open">>
            /\ pulls_in_cycle = 0
            /\ latest_remote_commit = NoCommit
            /\ http_status = 0
            /\ http_body = NoBody
            /\ sleep_dur = CheckInterval
            /\ backoff_attempt = attempt_before)
    /\ [][ /\ (pc = "open" /\ pc' \notin {"open", "fetch"}) =>
                 /\ pc' = "sleep_open"
                 /\ backoff_attempt' = backoff_attempt
                 /\ last_change_time' = last_change_time
           /\ (pc = "sleep_open" /\ pc' # pc) =>
                 /\ pc' = "open"
                 /\ backoff_attempt' = backoff_attempt
                 /\ last_change_time' = last_change_time ]_vars

\* C11 witness: the third of three consecutive failed opens is slept off.
C11_Witness ==
    /\ run_kind = "openfail"
    /\ cycle = 3
    /\ pc = "sleep_open"
    /\ sleep_dur = CheckInterval

\* C12: a fetch in flight always ends (by an answer or by a timeout), so
\* the cycle goes on to its sleep or to the local read.
C12_FetchAlwaysEnds ==
    (pc \in {"await", "await_body"}) ~> (pc \notin {"await", "await_body"})

\* The status clause of C13: a cycle holds an identifier only from a
\* response with a 2xx status.
C13_StatusClause ==
    latest_remote_commit # NoCommit => http_status \in 200..299

\* The body clause of C13: a body the fetch took an identifier from is a
\* JSON object with a field `sha`.
C13_BodyClause ==
    http_body # NoBody =>
        /\ http_body.shape = "object"
        /\ Len(http_body.items) >= 1

\* C13: the fetch yields an identifier only from a response with a 2xx
\* status whose body is a JSON object with a field `sha`, so the loop
\* compares and pulls only on such a response.
C13_IdentifierOnlyFrom2xx ==
    C13_StatusClause /\ C13_BodyClause

\* C14: every failure path of a cycle has written an error entry to the log
\* by the time the cycle sleeps or main is left.
C14_EveryFailureLogged ==
    /\ pc = "sleep_open" => "open" \in errors
    /\ pc = "sleep_fetch" => "remote" \in errors
    /\ pc = "sleep_read" => "local" \in errors
    /\ (pc = "sleep_interval" /\ PullFailed) =>
          errors \cap {"pull_status", "pull_exec"} # {}
    /\ pc = "exited" => errors # {}

\* The steps of a complete cycle, in the order of the loop body.
StepOrder == <<"open", "fetch", "read", "compare", "pull">>

\* C15: the steps a cycle has performed are an initial part of open, fetch,
\* read, compare, pull (each at most once, in that order); a failed step is
\* the cycle's last; the comparison and the pull need both identifiers;
\* nothing is performed during a sleep, and a cycle starts only from the
\* loop head.
C15_StepsInOrderOncePerCycle ==
    /\ [](/\ Len(trace) <= Len(StepOrder)
          /\ trace = SubSeq(StepOrder, 1, Len(trace))
          /\ pulls_in_cycle <= 1)
    /\ [](/\ pc = "sleep_open" => trace = <<"open">>
          /\ pc = "sleep_fetch" =>
                trace = <<"open", "fetch">> /\ latest_remote_commit = NoCommit
          /\ pc = "sleep_read" =>
                trace = <<"open", "fetch", "read">> /\ local_commit = NoCommit
          /\ Len(trace) >= 4 =>
                latest_remote_commit # NoCommit /\ local_commit # NoCommit
          /\ Len(trace) = 5 <=> pulls_in_cycle = 1
          /\ Len(trace) = 5 => Divergent)
    /\ [][ /\ Sleeping => trace' = trace
           /\ (trace' # trace /\ Len(trace') = 1) => pc = "open" ]_vars

\* C15 witness: a second or later cycle has gone through all five steps.
C15_Witness ==
    /\ pc = "sleep_interval"
    /\ trace = StepOrder
    /\ cycle = 3
    /\ pull_count = 1

\* C16: only the step that completes a divergent cycle changes
\* last_change_time; before the first divergent cycle it is the startup
\* reading, afterwards the reading of the latest divergent cycle.
C16_OnlyDivergentCycleChangesTime ==
    /\ [](pull_count = 0 => stamp_at = 0)
    /\ [][ /\ last_change_time' # last_change_time =>
                 pc = "pull" /\ Divergent /\ pc' = "sleep_interval"
           /\ stamp_at' # stamp_at =>
                 pc = "pull" /\ last_change_time' = SystemTimeNow'
           /\ (pc' \in {"sleep_open", "sleep_fetch", "sleep_read"}
               \/ (pc \in {"compare", "flush"} /\ ~Divergent)) =>
                 last_change_time' = last_change_time ]_vars

\* C16 witness: a no-change cycle ends after the clock has moved on since
\* the one divergent cycle of the run.
C16_Witness ==
    /\ pc = "sleep_interval"
    /\ pulls_in_cycle = 0
    /\ latest_remote_commit = local_commit
    /\ pull_count = 1
    /\ stamp_at = 1
    /\ now = 2
    /\ last_change_time # SystemTimeNow

\* C17: every backoff delay lies in 1..64 and is 64 from the counter value 6
\* on; the increment after a backoff sleep gives the counter's successor,
\* never a smaller value, never ends main, so the delay does not shrink.
C17_IncrementNeverWrapsNorAborts ==
    [][ /\ BackoffSleeping' =>
              /\ sleep_dur' \in 1..64
              /\ (backoff_attempt'.hi > 0 \/ backoff_attempt'.lo >= 6)
                    => sleep_dur' = 64
        /\ (BackoffSleeping /\ pc' # pc) =>
              /\ pc' = "open"
              /\ IsSuccessor(backoff_attempt, backoff_attempt')
              /\ exponential_backoff(backoff_attempt')
                    >= exponential_backoff(backoff_attempt) ]_vars

====
